---- MODULE Spec2Model ----
(***************************************************************************)
(* The devnet bring-up pipeline of package e2e: Stack.Run and              *)
(* Stack.runMonomer, the anvil exit monitor launched with env.Go, the two  *)
(* subprocesses started with exec.CommandContext, and the caller that      *)
(* owns the context and the environment.Env (TestE2E).                     *)
(*                                                                         *)
(* pc names the statement of Stack.Run that runs next; every statement     *)
(* that can return early is one action with its failing and its passing    *)
(* outcome.  order is the history of the statements executed so far.       *)
(***************************************************************************)
EXTENDS Integers, Sequences, FiniteSets, TLC

\* ---------------------------------------------------------------- bounds
MaxL1Head == 2
MaxHash == 2
MaxKey == 2
MaxAddr == 2

\* ------------------------------------------------------ program constants
AnvilChainID == 31337
l2ChainID == 901
HardhatL1ChainID == 900
l1BlockTime == 2

Listeners == {"engineHTTP", "engineWS", "cometListener"}

\* The dbm/cometdb NewMemDB() calls of runMonomer.
Stores == {"appdb", "blockdb", "txdb", "mempooldb"}

NoDeployConfig == [l1ChainID |-> 0, l2ChainID |-> 0, deployments |-> 0]
NoRollupConfig ==
    [l1ChainID |-> 0, l2ChainID |-> 0, l1Block |-> 0, l2Time |-> 0,
     l2GenesisHash |-> 0, deployments |-> 0, confDepth |-> 0]
NoGenesis == [chainID |-> 0, time |-> 0]
NoOPStack == [oracle |-> 0, key |-> 0, rollupConfig |-> NoRollupConfig]

VARIABLES
    pc,              \* statement of Stack.Run to execute next, or "returned"
    result,          \* "none" while running, then "nil" or "err"
    failedStage,     \* the statement whose error Run returned, or "none"
    order,           \* statements executed so far, in execution order
    cancelled,       \* ctx.Done() is closed
    anvil,           \* anvil process: "none", "running", "exitOk", "exitErr", "killed"
    anvilUp,         \* the anvil endpoint accepts connections
    l1Head,          \* number of the latest L1 block (0: no chain yet)
    pcMon,           \* env.Go monitor: "none", "waiting", "done"
    onAnvilErr,      \* arguments OnAnvilErr was invoked with, in order
    anvilProbe,      \* what s.anvilURL.IsReachable returned: "none", "true", "false"
    privKey,         \* generated key (0: none)
    fundedKey,       \* key whose address SetBalance funded (0: none)
    forge,           \* forge process, states as for anvil
    forgeKey,        \* --private-key given to forge (0: none)
    diskDeployments, \* oracle address in the .deploy artifact on disk (0: absent)
    latestL1Block,   \* L1 block number read after deployment (0: none)
    bindCount,       \* per listener: successful net.Listen calls
    closeCount,      \* per listener: Close calls
    appStore,        \* the test app and its store exist
    stores,          \* per in-memory store: "none", "open" or "closed"
    nodeGenesis,     \* genesis.Genesis handed to node.New
    nodeHash,        \* genesis block hash of the running L2 node (0: not running)
    monomerUp,       \* the engine endpoint accepts connections
    monomerProbe,    \* what s.monomerEngineURL.IsReachable returned
    l2GenesisBlockHash,
    l1Deployments,   \* loaded L1Deployments: its L2OutputOracleProxy (0: none)
    templateConfig,  \* the deploy config as loaded, before the overrides
    deployConfig,
    rollupConfig,
    opStack,         \* arguments NewOPStack received
    opStackStarted,
    deferred,        \* labels registered with env.DeferErr, in registration order
    envClosed,
    cleanupLog,      \* labels of the cleanups invoked by env.Close, in order
    cleanupFailed,   \* labels of the cleanups that returned an error
    cancelMidDeploy  \* ctx was cancelled while the forge process was running

ctl == <<pc, result, failedStage, order>>
ctxv == <<cancelled, cancelMidDeploy>>
l1v == <<anvil, anvilUp, l1Head, pcMon, onAnvilErr>>
fundv == <<anvilProbe, privKey, fundedKey>>
forgev == <<forge, forgeKey, diskDeployments, latestL1Block>>
lisv == <<bindCount, closeCount>>
nodev == <<appStore, stores, nodeGenesis, nodeHash, monomerUp>>
cfgv == <<monomerProbe, l2GenesisBlockHash, l1Deployments, templateConfig,
          deployConfig, rollupConfig>>
opv == <<opStack, opStackStarted>>
envv == <<deferred, envClosed, cleanupLog, cleanupFailed>>

vars == <<ctl, ctxv, l1v, fundv, forgev, lisv, nodev, cfgv, opv, envv>>

\* TestE2E: env := environment.New(); openLogFile registers the op log's
\* Close with env.DeferErr before the stack is brought up.
Init ==
    /\ pc = "logAnvil"
    /\ result = "none"
    /\ failedStage = "none"
    /\ order = <<>>
    /\ cancelled = FALSE
    /\ anvil = "none"
    /\ anvilUp = FALSE
    /\ l1Head = 0
    /\ pcMon = "none"
    /\ onAnvilErr = <<>>
    /\ anvilProbe = "none"
    /\ privKey = 0
    /\ fundedKey = 0
    /\ forge = "none"
    /\ forgeKey = 0
    /\ diskDeployments = 0
    /\ latestL1Block = 0
    /\ bindCount = [l \in Listeners |-> 0]
    /\ closeCount = [l \in Listeners |-> 0]
    /\ appStore = FALSE
    /\ stores = [st \in Stores |-> "none"]
    /\ nodeGenesis = NoGenesis
    /\ nodeHash = 0
    /\ monomerUp = FALSE
    /\ monomerProbe = "none"
    /\ l2GenesisBlockHash = 0
    /\ l1Deployments = 0
    /\ templateConfig = NoDeployConfig
    /\ deployConfig = NoDeployConfig
    /\ rollupConfig = NoRollupConfig
    /\ opStack = NoOPStack
    /\ opStackStarted = FALSE
    /\ deferred = <<"close log file">>
    /\ envClosed = FALSE
    /\ cleanupLog = <<>>
    /\ cleanupFailed = {}
    /\ cancelMidDeploy = FALSE

\* ------------------------------------------------- control-flow helpers

\* A statement completed without error; the next statement is `next`.
Advance(stage, next) ==
    /\ pc' = next
    /\ order' = Append(order, stage)
    /\ UNCHANGED <<result, failedStage>>

\* Variant of ReturnErr: the error is dropped and nil is returned.
ReturnErr_Swallowed(stage) ==
    /\ pc' = "returned"
    /\ result' = "nil"
    /\ failedStage' = stage
    /\ order' = Append(order, stage)

\* `return fmt.Errorf(...)`: Run returns the wrapped error of `stage`.
ReturnErr(stage) ==
    /\ pc' = "returned"
    /\ result' = "err"
    /\ failedStage' = stage
    /\ order' = Append(order, stage)

\* `return nil`.
ReturnNil(stage) ==
    /\ pc' = "returned"
    /\ result' = "nil"
    /\ order' = Append(order, stage)
    /\ UNCHANGED failedStage

\* ------------------------------------------------ external collaborators

\* Variant of IsReachable: the probe gives up on its own.
IsReachable_OwnTimeout(up, r) ==
    \/ r = "true" /\ up
    \/ r = "false"

\* url.URL.IsReachable(ctx): polls until the endpoint accepts a connection
\* (true) or ctx is cancelled (false); it has no timeout of its own.
IsReachable(up, r) ==
    \/ r = "true" /\ up
    \/ r = "false" /\ cancelled

\* A call that takes ctx cannot complete once ctx is cancelled.
CtxAlive == ~cancelled

\* env.DeferErr(label, fn): the cleanup is pushed on the manager's list.
DeferErr(d, label) == Append(d, label)

Reverse(s) == [i \in 1..Len(s) |-> s[Len(s) + 1 - i]]

Range(s) == {s[i] : i \in 1..Len(s)}

ListenerLabel(l) == "close " \o l

\* ----------------------------------------------------- Stack.Run: anvil

LogAnvil ==
    /\ pc = "logAnvil"
    /\ \/ ReturnErr("logAnvil")
       \/ Advance("logAnvil", "startAnvil")
    /\ UNCHANGED <<ctxv, l1v, fundv, forgev, lisv, nodev, cfgv, opv, envv>>

StartAnvil ==
    /\ pc = "startAnvil"
    /\ \/ /\ ReturnErr("startAnvil")
          /\ UNCHANGED anvil
       \/ /\ CtxAlive
          /\ Advance("startAnvil", "goMonitor")
          /\ anvil' = "running"
    /\ UNCHANGED <<ctxv, anvilUp, l1Head, pcMon, onAnvilErr, fundv, forgev, lisv,
                   nodev, cfgv, opv, envv>>

\* env.Go(func() { ... anvilCmd.Wait() ... })
GoMonitor ==
    /\ pc = "goMonitor"
    /\ Advance("goMonitor", "probeAnvil")
    /\ pcMon' = "waiting"
    /\ UNCHANGED <<ctxv, anvil, anvilUp, l1Head, onAnvilErr, fundv, forgev, lisv,
                   nodev, cfgv, opv, envv>>

\* Variant of AnvilUnreachable: the probe's result is ignored.
AnvilUnreachable_Ignored == Advance("probeAnvil", "dialAnvil")

\* if !s.anvilURL.IsReachable(ctx) { return nil }
AnvilUnreachable == ReturnNil("probeAnvil")

\* Variant of ProbeAnvil: the wait also ends, with false, once the anvil
\* process has exited.
ProbeAnvil_SeesExit ==
    /\ pc = "probeAnvil"
    /\ \E r \in {"true", "false"} :
          /\ \/ IsReachable(anvilUp, r)
             \/ r = "false" /\ anvil \in {"exitOk", "exitErr", "killed"}
          /\ anvilProbe' = r
          /\ IF r = "true"
               THEN Advance("probeAnvil", "dialAnvil")
               ELSE AnvilUnreachable
    /\ UNCHANGED <<ctxv, l1v, privKey, fundedKey, forgev, lisv, nodev, cfgv, opv, envv>>

ProbeAnvil ==
    /\ pc = "probeAnvil"
    /\ \E r \in {"true", "false"} :
          /\ IsReachable(anvilUp, r)
          /\ anvilProbe' = r
          /\ IF r = "true"
               THEN Advance("probeAnvil", "dialAnvil")
               ELSE AnvilUnreachable
    /\ UNCHANGED <<ctxv, l1v, privKey, fundedKey, forgev, lisv, nodev, cfgv, opv, envv>>

\* Variant of DialAnvil: the key is funded before it is generated.
DialAnvil_SkipsKey ==
    /\ pc = "dialAnvil"
    /\ \/ ReturnErr("dialAnvil")
       \/ CtxAlive /\ Advance("dialAnvil", "setBalance")
    /\ UNCHANGED <<ctxv, l1v, fundv, forgev, lisv, nodev, cfgv, opv, envv>>

DialAnvil ==
    /\ pc = "dialAnvil"
    /\ \/ ReturnErr("dialAnvil")
       \/ CtxAlive /\ Advance("dialAnvil", "generateKey")
    /\ UNCHANGED <<ctxv, l1v, fundv, forgev, lisv, nodev, cfgv, opv, envv>>

GenerateKey ==
    /\ pc = "generateKey"
    /\ \/ /\ ReturnErr("generateKey")
          /\ UNCHANGED privKey
       \/ /\ Advance("generateKey", "setBalance")
          /\ \E k \in 1..MaxKey : privKey' = k
    /\ UNCHANGED <<ctxv, l1v, anvilProbe, fundedKey, forgev, lisv, nodev, cfgv, opv, envv>>

\* Variant of SetBalance: on failure Run kills the anvil process before it
\* returns the error.
SetBalance_KillsAnvil ==
    /\ pc = "setBalance"
    /\ \/ /\ ReturnErr("setBalance")
          /\ anvil' = IF anvil = "running" THEN "killed" ELSE anvil
          /\ anvilUp' = FALSE
          /\ UNCHANGED fundedKey
       \/ /\ CtxAlive /\ anvilUp
          /\ Advance("setBalance", "logForge")
          /\ fundedKey' = privKey
          /\ UNCHANGED <<anvil, anvilUp>>
    /\ UNCHANGED <<ctxv, l1Head, pcMon, onAnvilErr, anvilProbe, privKey, forgev, lisv,
                   nodev, cfgv, opv, envv>>

SetBalance ==
    /\ pc = "setBalance"
    /\ \/ /\ ReturnErr("setBalance")
          /\ UNCHANGED fundedKey
       \/ /\ CtxAlive /\ anvilUp
          /\ Advance("setBalance", "logForge")
          /\ fundedKey' = privKey
    /\ UNCHANGED <<ctxv, l1v, anvilProbe, privKey, forgev, lisv, nodev, cfgv, opv, envv>>

\* ----------------------------------------------------- Stack.Run: forge

\* Variant of LogForge: a failed log redirect does not stop the pipeline.
LogForge_ErrIgnored ==
    /\ pc = "logForge"
    /\ \/ /\ pc' = "startForge"
          /\ order' = Append(order, "logForge")
          /\ failedStage' = "logForge"
          /\ UNCHANGED result
       \/ Advance("logForge", "startForge")
    /\ UNCHANGED <<ctxv, l1v, fundv, forgev, lisv, nodev, cfgv, opv, envv>>

LogForge ==
    /\ pc = "logForge"
    /\ \/ ReturnErr("logForge")
       \/ Advance("logForge", "startForge")
    /\ UNCHANGED <<ctxv, l1v, fundv, forgev, lisv, nodev, cfgv, opv, envv>>

StartForge ==
    /\ pc = "startForge"
    /\ forgeKey' = privKey
    /\ \/ /\ ReturnErr("startForge")
          /\ UNCHANGED forge
       \/ /\ CtxAlive
          /\ Advance("startForge", "waitForge")
          /\ forge' = "running"
    /\ UNCHANGED <<ctxv, l1v, fundv, diskDeployments, latestL1Block, lisv, nodev,
                   cfgv, opv, envv>>

\* Variant of WaitForge: the exit of the process is not awaited.
WaitForge_NoWait ==
    /\ pc = "waitForge"
    /\ IF forge \in {"exitOk", "running"}
         THEN Advance("waitForge", "latestL1Block")
         ELSE ReturnErr("waitForge")
    /\ UNCHANGED <<ctxv, l1v, fundv, forgev, lisv, nodev, cfgv, opv, envv>>

\* forgeCmd.Wait() returns once the process has exited
WaitForge ==
    /\ pc = "waitForge"
    /\ forge \in {"exitOk", "exitErr", "killed"}
    /\ IF forge = "exitOk"
         THEN Advance("waitForge", "latestL1Block")
         ELSE ReturnErr("waitForge")
    /\ UNCHANGED <<ctxv, l1v, fundv, forgev, lisv, nodev, cfgv, opv, envv>>

LatestL1Block ==
    /\ pc = "latestL1Block"
    /\ \/ /\ ReturnErr("latestL1Block")
          /\ UNCHANGED latestL1Block
       \/ /\ CtxAlive /\ anvilUp
          /\ Advance("latestL1Block", "listenEngineHTTP")
          /\ latestL1Block' = l1Head
    /\ UNCHANGED <<ctxv, l1v, fundv, forge, forgeKey, diskDeployments, lisv, nodev,
                   cfgv, opv, envv>>

\* ------------------------------------------------------ Stack.runMonomer

\* latestL1Block.Time(): anvil stamps block n at n block times after its start.
BlockTime(n) == n * l1BlockTime

\* Variant of Listen: the statement passes without a listener being bound.
Listen_NotBound(l, stage, next) ==
    /\ pc = stage
    /\ \/ ReturnErr(stage)
       \/ Advance(stage, next)
    /\ UNCHANGED <<ctxv, l1v, fundv, forgev, lisv, nodev, cfgv, opv, envv>>

\* net.Listen("tcp", ...) for listener l
Listen(l, stage, next) ==
    /\ pc = stage
    /\ \/ /\ ReturnErr(stage)
          /\ UNCHANGED bindCount
       \/ /\ Advance(stage, next)
          /\ bindCount' = [bindCount EXCEPT ![l] = @ + 1]
    /\ UNCHANGED <<ctxv, l1v, fundv, forgev, closeCount, nodev, cfgv, opv, envv>>

ListenEngineHTTP == Listen("engineHTTP", "listenEngineHTTP", "listenEngineWS")

ListenEngineWS == Listen("engineWS", "listenEngineWS", "listenComet")

ListenComet == Listen("cometListener", "listenComet", "newTestApp")

\* app, err := testapp.New(dbm.NewMemDB(), chainID.String())
NewTestApp ==
    /\ pc = "newTestApp"
    /\ stores' = [stores EXCEPT !["appdb"] = "open"]
    /\ \/ /\ ReturnErr("newTestApp")
          /\ UNCHANGED appStore
       \/ /\ Advance("newTestApp", "deferBlockDB")
          /\ appStore' = TRUE
    /\ UNCHANGED <<ctxv, l1v, fundv, forgev, lisv, nodeGenesis, nodeHash, monomerUp,
                   cfgv, opv, envv>>

\* blockdb := dbm.NewMemDB(); env.DeferErr("close block db", blockdb.Close)
DeferBlockDB ==
    /\ pc = "deferBlockDB"
    /\ Advance("deferBlockDB", "deferTxDB")
    /\ stores' = [stores EXCEPT !["blockdb"] = "open"]
    /\ deferred' = DeferErr(deferred, "close block db")
    /\ UNCHANGED <<ctxv, l1v, fundv, forgev, lisv, appStore, nodeGenesis, nodeHash,
                   monomerUp, cfgv, opv, envClosed, cleanupLog, cleanupFailed>>

DeferTxDB ==
    /\ pc = "deferTxDB"
    /\ Advance("deferTxDB", "deferMempoolDB")
    /\ stores' = [stores EXCEPT !["txdb"] = "open"]
    /\ deferred' = DeferErr(deferred, "close tx db")
    /\ UNCHANGED <<ctxv, l1v, fundv, forgev, lisv, appStore, nodeGenesis, nodeHash,
                   monomerUp, cfgv, opv, envClosed, cleanupLog, cleanupFailed>>

\* Variant of DeferMempoolDB: the store is created but its Close is not deferred.
DeferMempoolDB_NotRegistered ==
    /\ pc = "deferMempoolDB"
    /\ Advance("deferMempoolDB", "nodeRun")
    /\ stores' = [stores EXCEPT !["mempooldb"] = "open"]
    /\ UNCHANGED <<ctxv, l1v, fundv, forgev, lisv, appStore, nodeGenesis, nodeHash,
                   monomerUp, cfgv, opv, envv>>

DeferMempoolDB ==
    /\ pc = "deferMempoolDB"
    /\ Advance("deferMempoolDB", "nodeRun")
    /\ stores' = [stores EXCEPT !["mempooldb"] = "open"]
    /\ deferred' = DeferErr(deferred, "close mempool db")
    /\ UNCHANGED <<ctxv, l1v, fundv, forgev, lisv, appStore, nodeGenesis, nodeHash,
                   monomerUp, cfgv, opv, envClosed, cleanupLog, cleanupFailed>>

\* The genesis.Genesis literal given to node.New.
NewGenesis(genesisTime, chainIDU64) == [chainID |-> chainIDU64, time |-> genesisTime]

\* node.Node.Run(ctx, env): the node owns the three listeners it was given
\* and releases them through the manager's deferred cleanups.
NodeOwnsListeners(d) ==
    DeferErr(DeferErr(DeferErr(d, ListenerLabel("engineHTTP")),
                      ListenerLabel("engineWS")),
             ListenerLabel("cometListener"))

\* n := node.New(...); if err := n.Run(ctx, env); err != nil { return ... }
\* called as s.runMonomer(ctx, env, latestL1Block.Time(), l2ChainID)
NodeRun ==
    /\ pc = "nodeRun"
    /\ nodeGenesis' = NewGenesis(BlockTime(latestL1Block), l2ChainID)
    /\ deferred' = NodeOwnsListeners(deferred)
    /\ \/ /\ ReturnErr("nodeRun")
          /\ UNCHANGED nodeHash
       \/ /\ Advance("nodeRun", "probeMonomer")
          /\ \E h \in 1..MaxHash : nodeHash' = h
    /\ UNCHANGED <<ctxv, l1v, fundv, forgev, lisv, appStore, stores, monomerUp, cfgv,
                   opv, envClosed, cleanupLog, cleanupFailed>>

\* ------------------------------------------- Stack.Run: config derivation

\* Variant of MonomerUnreachable: an unreachable engine is reported as an error.
MonomerUnreachable_Err == ReturnErr("probeMonomer")

\* Variant of MonomerUnreachable: the probe's result is ignored.
MonomerUnreachable_Ignored == Advance("probeMonomer", "dialMonomer")

\* if !s.monomerEngineURL.IsReachable(ctx) { return nil }
MonomerUnreachable == ReturnNil("probeMonomer")

ProbeMonomer ==
    /\ pc = "probeMonomer"
    /\ \E r \in {"true", "false"} :
          /\ IsReachable(monomerUp, r)
          /\ monomerProbe' = r
          /\ IF r = "true"
               THEN Advance("probeMonomer", "dialMonomer")
               ELSE MonomerUnreachable
    /\ UNCHANGED <<ctxv, l1v, fundv, forgev, lisv, nodev, l2GenesisBlockHash,
                   l1Deployments, templateConfig, deployConfig, rollupConfig, opv, envv>>

DialMonomer ==
    /\ pc = "dialMonomer"
    /\ \/ ReturnErr("dialMonomer")
       \/ CtxAlive /\ Advance("dialMonomer", "genesisHash")
    /\ UNCHANGED <<ctxv, l1v, fundv, forgev, lisv, nodev, cfgv, opv, envv>>

\* l2GenesisBlockHash, err := monomerClient.GenesisHash(ctx)
GenesisHash ==
    /\ pc = "genesisHash"
    /\ \/ /\ ReturnErr("genesisHash")
          /\ UNCHANGED l2GenesisBlockHash
       \/ /\ CtxAlive /\ monomerUp
          /\ Advance("genesisHash", "newL1Deployments")
          /\ l2GenesisBlockHash' = nodeHash
    /\ UNCHANGED <<ctxv, l1v, fundv, forgev, lisv, nodev, monomerProbe,
                   l1Deployments, templateConfig, deployConfig, rollupConfig, opv, envv>>

\* opgenesis.NewL1Deployments(<root>/deployments/hardhat/.deploy)
NewL1Deployments ==
    /\ pc = "newL1Deployments"
    /\ \/ /\ ReturnErr("newL1Deployments")
          /\ UNCHANGED l1Deployments
       \/ /\ diskDeployments # 0
          /\ Advance("newL1Deployments", "newDeployConfig")
          /\ l1Deployments' = diskDeployments
    /\ UNCHANGED <<ctxv, l1v, fundv, forgev, lisv, nodev, monomerProbe,
                   l2GenesisBlockHash, templateConfig, deployConfig, rollupConfig,
                   opv, envv>>

\* Chain IDs a deploy-config template may carry.
TemplateL1ChainIDs == {HardhatL1ChainID, AnvilChainID}

TemplateL2ChainIDs == {l2ChainID, l2ChainID + 1}

\* opgenesis.NewDeployConfigWithNetwork("hardhat", <root>/deploy-config)
NewDeployConfig ==
    /\ pc = "newDeployConfig"
    /\ \/ /\ ReturnErr("newDeployConfig")
          /\ UNCHANGED deployConfig
       \/ /\ Advance("newDeployConfig", "setL1ChainID")
          /\ \E c1 \in TemplateL1ChainIDs, c2 \in TemplateL2ChainIDs :
                deployConfig' = [l1ChainID |-> c1, l2ChainID |-> c2, deployments |-> 0]
    /\ templateConfig' = deployConfig'
    /\ UNCHANGED <<ctxv, l1v, fundv, forgev, lisv, nodev, monomerProbe,
                   l2GenesisBlockHash, l1Deployments, rollupConfig, opv, envv>>

\* Variant of SetL1ChainID: the template's L1 chain ID is kept.
SetL1ChainID_Kept ==
    /\ pc = "setL1ChainID"
    /\ Advance("setL1ChainID", "setL2ChainID")
    /\ UNCHANGED <<ctxv, l1v, fundv, forgev, lisv, nodev, cfgv, opv, envv>>

\* deployConfig.L1ChainID = 31337
SetL1ChainID ==
    /\ pc = "setL1ChainID"
    /\ Advance("setL1ChainID", "setL2ChainID")
    /\ deployConfig' = [deployConfig EXCEPT !.l1ChainID = AnvilChainID]
    /\ UNCHANGED <<ctxv, l1v, fundv, forgev, lisv, nodev, monomerProbe,
                   l2GenesisBlockHash, l1Deployments, templateConfig, rollupConfig,
                   opv, envv>>

\* deployConfig.L2ChainID = l2ChainID
SetL2ChainID ==
    /\ pc = "setL2ChainID"
    /\ Advance("setL2ChainID", "setDeployments")
    /\ deployConfig' = [deployConfig EXCEPT !.l2ChainID = l2ChainID]
    /\ UNCHANGED <<ctxv, l1v, fundv, forgev, lisv, nodev, monomerProbe,
                   l2GenesisBlockHash, l1Deployments, templateConfig, rollupConfig,
                   opv, envv>>

\* deployConfig.SetDeployments(l1Deployments)
SetDeployments ==
    /\ pc = "setDeployments"
    /\ Advance("setDeployments", "rollupConfig")
    /\ deployConfig' = [deployConfig EXCEPT !.deployments = l1Deployments]
    /\ UNCHANGED <<ctxv, l1v, fundv, forgev, lisv, nodev, monomerProbe,
                   l2GenesisBlockHash, l1Deployments, templateConfig, rollupConfig,
                   opv, envv>>

\* DeployConfig.RollupConfig(l1StartBlock, l2GenesisBlockHash, l2GenesisBlockNumber)
DeriveRollupConfig(dc, l1StartBlock, l2Hash, l2Number) ==
    [l1ChainID |-> dc.l1ChainID, l2ChainID |-> dc.l2ChainID,
     l1Block |-> l1StartBlock, l2Time |-> BlockTime(l1StartBlock),
     l2GenesisHash |-> l2Hash, deployments |-> dc.deployments,
     confDepth |-> l2Number]

\* Variant of RollupConfig: the current L1 head is used instead of the
\* block read after the deployment.
RollupConfig_LaterBlock ==
    /\ pc = "rollupConfig"
    /\ \/ /\ ReturnErr("rollupConfig")
          /\ UNCHANGED rollupConfig
       \/ /\ Advance("rollupConfig", "opStackRun")
          /\ rollupConfig' = DeriveRollupConfig(deployConfig, l1Head, l2GenesisBlockHash, 1)
    /\ UNCHANGED <<ctxv, l1v, fundv, forgev, lisv, nodev, monomerProbe,
                   l2GenesisBlockHash, l1Deployments, templateConfig, deployConfig,
                   opv, envv>>

\* Variant of RollupConfig: the zero hash is passed as the L2 genesis hash.
RollupConfig_ZeroHash ==
    /\ pc = "rollupConfig"
    /\ \/ /\ ReturnErr("rollupConfig")
          /\ UNCHANGED rollupConfig
       \/ /\ Advance("rollupConfig", "opStackRun")
          /\ rollupConfig' = DeriveRollupConfig(deployConfig, latestL1Block, 0, 1)
    /\ UNCHANGED <<ctxv, l1v, fundv, forgev, lisv, nodev, monomerProbe,
                   l2GenesisBlockHash, l1Deployments, templateConfig, deployConfig,
                   opv, envv>>

\* rollupConfig, err := deployConfig.RollupConfig(latestL1Block, l2GenesisBlockHash, 1)
RollupConfig ==
    /\ pc = "rollupConfig"
    /\ \/ /\ ReturnErr("rollupConfig")
          /\ UNCHANGED rollupConfig
       \/ /\ Advance("rollupConfig", "opStackRun")
          /\ rollupConfig' =
                DeriveRollupConfig(deployConfig, latestL1Block, l2GenesisBlockHash, 1)
    /\ UNCHANGED <<ctxv, l1v, fundv, forgev, lisv, nodev, monomerProbe,
                   l2GenesisBlockHash, l1Deployments, templateConfig, deployConfig,
                   opv, envv>>

\* Variant of OPStackRun: the oracle address is read from the deploy config
\* as it was loaded, not from the L1 deployments.
OPStackRun_TemplateOracle ==
    /\ pc = "opStackRun"
    /\ opStack' = [oracle |-> templateConfig.deployments, key |-> privKey,
                   rollupConfig |-> rollupConfig]
    /\ \/ /\ ReturnErr("opStackRun")
          /\ UNCHANGED opStackStarted
       \/ /\ ReturnNil("opStackRun")
          /\ opStackStarted' = TRUE
    /\ UNCHANGED <<ctxv, l1v, fundv, forgev, lisv, nodev, cfgv, envv>>

\* opStack := NewOPStack(...); if err := opStack.Run(ctx, env); err != nil ...
OPStackRun ==
    /\ pc = "opStackRun"
    /\ opStack' = [oracle |-> l1Deployments, key |-> privKey, rollupConfig |-> rollupConfig]
    /\ \/ /\ ReturnErr("opStackRun")
          /\ UNCHANGED opStackStarted
       \/ /\ ReturnNil("opStackRun")
          /\ opStackStarted' = TRUE
    /\ UNCHANGED <<ctxv, l1v, fundv, forgev, lisv, nodev, cfgv, envv>>

\* ------------------------------------------------- concurrent activity

\* cancel() of the context handed to Run
Cancel ==
    /\ ~cancelled
    /\ cancelled' = TRUE
    /\ cancelMidDeploy' = (forge = "running")
    /\ UNCHANGED <<ctl, l1v, fundv, forgev, lisv, nodev, cfgv, opv, envv>>

\* anvil starts serving its port
AnvilReady ==
    /\ anvil = "running" /\ ~anvilUp /\ l1Head = 0
    /\ anvilUp' = TRUE
    /\ l1Head' = 1
    /\ UNCHANGED <<ctl, ctxv, anvil, pcMon, onAnvilErr, fundv, forgev, lisv, nodev,
                   cfgv, opv, envv>>

\* anvil mines a block (--block-time)
L1Tick ==
    /\ anvil = "running" /\ anvilUp /\ l1Head < MaxL1Head
    /\ l1Head' = l1Head + 1
    /\ UNCHANGED <<ctl, ctxv, anvil, anvilUp, pcMon, onAnvilErr, fundv, forgev, lisv,
                   nodev, cfgv, opv, envv>>

\* the anvil process exits on its own
AnvilExit ==
    /\ anvil = "running"
    /\ \E how \in {"exitOk", "exitErr"} : anvil' = how
    /\ anvilUp' = FALSE
    /\ UNCHANGED <<ctl, ctxv, l1Head, pcMon, onAnvilErr, fundv, forgev, lisv, nodev,
                   cfgv, opv, envv>>

\* exec.CommandContext: the process is killed once ctx is done
AnvilKill ==
    /\ anvil = "running" /\ cancelled
    /\ anvil' = "killed"
    /\ anvilUp' = FALSE
    /\ UNCHANGED <<ctl, ctxv, l1Head, pcMon, onAnvilErr, fundv, forgev, lisv, nodev,
                   cfgv, opv, envv>>

\* Variant of Monitor: a failed Wait also cancels the pipeline's context.
Monitor_CancelsPipeline ==
    /\ pcMon = "waiting"
    /\ anvil \in {"exitOk", "exitErr", "killed"}
    /\ pcMon' = "done"
    /\ onAnvilErr' = IF anvil # "exitOk" THEN Append(onAnvilErr, "err") ELSE onAnvilErr
    /\ cancelled' = (cancelled \/ anvil # "exitOk")
    /\ UNCHANGED <<ctl, cancelMidDeploy, anvil, anvilUp, l1Head, fundv, forgev, lisv,
                   nodev, cfgv, opv, envv>>

\* if err := anvilCmd.Wait(); err != nil { s.eventListener.OnAnvilErr(fmt.Errorf(...)) }
Monitor ==
    /\ pcMon = "waiting"
    /\ anvil \in {"exitOk", "exitErr", "killed"}
    /\ pcMon' = "done"
    /\ onAnvilErr' = IF anvil # "exitOk" THEN Append(onAnvilErr, "err") ELSE onAnvilErr
    /\ UNCHANGED <<ctl, ctxv, anvil, anvilUp, l1Head, fundv, forgev, lisv, nodev,
                   cfgv, opv, envv>>

\* the forge script runs to its end: success leaves the .deploy artifact
ForgeExit ==
    /\ forge = "running"
    /\ \/ /\ anvilUp
          /\ forge' = "exitOk"
          /\ \E a \in 1..MaxAddr : diskDeployments' = a
       \/ /\ forge' = "exitErr"
          /\ UNCHANGED diskDeployments
    /\ UNCHANGED <<ctl, ctxv, l1v, fundv, forgeKey, latestL1Block, lisv, nodev, cfgv,
                   opv, envv>>

ForgeKill ==
    /\ forge = "running" /\ cancelled
    /\ forge' = "killed"
    /\ UNCHANGED <<ctl, ctxv, l1v, fundv, forgeKey, diskDeployments, latestL1Block,
                   lisv, nodev, cfgv, opv, envv>>

\* the L2 node's engine server starts accepting connections
MonomerReady ==
    /\ nodeHash # 0 /\ ~monomerUp /\ ~cancelled
    /\ monomerUp' = TRUE
    /\ UNCHANGED <<ctl, ctxv, l1v, fundv, forgev, lisv, appStore, stores, nodeGenesis,
                   nodeHash, cfgv, opv, envv>>

\* the node's servers shut down when ctx is done
MonomerStop ==
    /\ monomerUp /\ cancelled
    /\ monomerUp' = FALSE
    /\ UNCHANGED <<ctl, ctxv, l1v, fundv, forgev, lisv, appStore, stores, nodeGenesis,
                   nodeHash, cfgv, opv, envv>>

\* ------------------------------------------------------ environment.Env

MaxFailingCleanups == 1

\* The cleanups env.Close invokes, in invocation order: last registered
\* first; a cleanup that fails does not stop the ones after it.
RECURSIVE RunCleanups(_, _)
RunCleanups(d, failing) ==
    IF d = <<>> THEN <<>>
    ELSE <<d[Len(d)]>> \o RunCleanups(SubSeq(d, 1, Len(d) - 1), failing)

Occurrences(s, x) == Cardinality({i \in 1..Len(s) : s[i] = x})

\* The store whose Close a deferred cleanup calls.
CleanupTarget(label) ==
    CASE label = "close block db" -> "blockdb"
      [] label = "close tx db" -> "txdb"
      [] label = "close mempool db" -> "mempooldb"
      [] OTHER -> "none"

\* TestE2E: defer require.NoError(t, env.Close()) runs after Run has
\* returned and after the deferred cancel().
CloseEnv ==
    /\ pc = "returned" /\ cancelled /\ ~envClosed
    /\ envClosed' = TRUE
    /\ \E failing \in SUBSET Range(deferred) :
          /\ Cardinality(failing) <= MaxFailingCleanups
          /\ cleanupFailed' = failing
          /\ cleanupLog' = RunCleanups(deferred, failing)
    /\ closeCount' = [l \in Listeners |->
                         closeCount[l] + Occurrences(cleanupLog', ListenerLabel(l))]
    /\ stores' = [st \in Stores |->
                     IF \E i \in 1..Len(cleanupLog') : CleanupTarget(cleanupLog'[i]) = st
                       THEN "closed"
                       ELSE stores[st]]
    /\ UNCHANGED <<ctl, ctxv, l1v, fundv, forgev, bindCount, appStore, nodeGenesis,
                   nodeHash, monomerUp, cfgv, opv, deferred>>

Next ==
    \/ LogAnvil \/ StartAnvil \/ GoMonitor \/ ProbeAnvil \/ DialAnvil
    \/ GenerateKey \/ SetBalance \/ LogForge \/ StartForge \/ WaitForge
    \/ LatestL1Block
    \/ ListenEngineHTTP \/ ListenEngineWS \/ ListenComet \/ NewTestApp
    \/ DeferBlockDB \/ DeferTxDB \/ DeferMempoolDB \/ NodeRun
    \/ ProbeMonomer \/ DialMonomer \/ GenesisHash
    \/ NewL1Deployments \/ NewDeployConfig
    \/ SetL1ChainID \/ SetL2ChainID \/ SetDeployments \/ RollupConfig
    \/ OPStackRun
    \/ Cancel \/ AnvilReady \/ L1Tick \/ AnvilExit \/ AnvilKill \/ Monitor
    \/ ForgeExit \/ ForgeKill \/ MonomerReady \/ MonomerStop
    \/ CloseEnv

Spec == Init /\ [][Next]_vars

\* A statement of Run or runMonomer executes.
RunStep ==
    \/ LogAnvil \/ StartAnvil \/ GoMonitor \/ ProbeAnvil \/ DialAnvil
    \/ GenerateKey \/ SetBalance \/ LogForge \/ StartForge \/ WaitForge
    \/ LatestL1Block
    \/ ListenEngineHTTP \/ ListenEngineWS \/ ListenComet \/ NewTestApp
    \/ DeferBlockDB \/ DeferTxDB \/ DeferMempoolDB \/ NodeRun
    \/ ProbeMonomer \/ DialMonomer \/ GenesisHash
    \/ NewL1Deployments \/ NewDeployConfig
    \/ SetL1ChainID \/ SetL2ChainID \/ SetDeployments \/ RollupConfig
    \/ OPStackRun

\* The goroutine running Run, the monitor goroutine and the goroutines with
\* which exec.CommandContext kills a process on ctx.Done() are scheduled
\* whenever they can take a step.  Nothing obliges the caller to cancel, a
\* process to exit on its own or an endpoint to come up.
FairSpec ==
    /\ Spec
    /\ WF_vars(RunStep)
    /\ WF_vars(Monitor)
    /\ WF_vars(AnvilKill)
    /\ WF_vars(ForgeKill)

\* =================================================================
\* Properties
\* =================================================================

Last(s) == s[Len(s)]

IsPrefix(s, t) == Len(s) <= Len(t) /\ \A i \in 1..Len(s) : s[i] = t[i]

NoDuplicates(s) == \A i, j \in 1..Len(s) : s[i] = s[j] => i = j

Executed(stage) == stage \in Range(order)

\* Position of a statement in the history (0: not executed).
Pos(stage) == IF Executed(stage) THEN CHOOSE i \in 1..Len(order) : order[i] = stage ELSE 0

\* The statements of Run and runMonomer in source order.
StageOrder ==
    <<"logAnvil", "startAnvil", "goMonitor", "probeAnvil", "dialAnvil",
      "generateKey", "setBalance", "logForge", "startForge", "waitForge",
      "latestL1Block", "listenEngineHTTP", "listenEngineWS", "listenComet",
      "newTestApp", "deferBlockDB", "deferTxDB", "deferMempoolDB", "nodeRun",
      "probeMonomer", "dialMonomer", "genesisHash", "newL1Deployments",
      "newDeployConfig", "setL1ChainID", "setL2ChainID", "setDeployments",
      "rollupConfig", "opStackRun">>

\* Nothing after the anvil readiness probe has had any effect.
NothingAfterAnvilProbe ==
    /\ privKey = 0 /\ fundedKey = 0
    /\ forge = "none" /\ forgeKey = 0
    /\ latestL1Block = 0
    /\ \A l \in Listeners : bindCount[l] = 0
    /\ nodeGenesis = NoGenesis /\ nodeHash = 0
    /\ deployConfig = NoDeployConfig /\ rollupConfig = NoRollupConfig
    /\ opStack = NoOPStack /\ ~opStackStarted

\* C1: when IsReachable on the anvil URL returns false, Run has returned nil,
\* the probe is the last statement it executed and none of the later stages
\* (dial, key, funding, forge, L2 node, config derivation, OP stack) happened.
C1_AnvilUnreachableReturnsNil ==
    anvilProbe = "false" =>
        /\ pc = "returned" /\ result = "nil" /\ failedStage = "none"
        /\ order = <<"logAnvil", "startAnvil", "goMonitor", "probeAnvil">>
        /\ NothingAfterAnvilProbe

\* C1 witness: Run returned after a probe of an endpoint that was never up.
C1_Witness == anvilProbe = "false" /\ l1Head = 0 /\ pc = "returned" /\ cancelled

\* C2: when the L2 node started without error and IsReachable on the engine
\* URL returns false, Run has returned nil, the probe is the last statement it
\* executed, and no genesis-hash query, deployments or deploy-config load,
\* rollup-config derivation or OP-stack start happened.
C2_MonomerUnreachableReturnsNil ==
    monomerProbe = "false" =>
        /\ pc = "returned" /\ result = "nil" /\ failedStage = "none"
        /\ Last(order) = "probeMonomer"
        /\ Executed("nodeRun") /\ nodeHash # 0
        /\ ~Executed("dialMonomer") /\ ~Executed("genesisHash")
        /\ l2GenesisBlockHash = 0 /\ l1Deployments = 0
        /\ templateConfig = NoDeployConfig /\ deployConfig = NoDeployConfig
        /\ rollupConfig = NoRollupConfig
        /\ opStack = NoOPStack /\ ~opStackStarted

\* C2 witness: the node runs, the engine endpoint never came up, Run returned.
C2_Witness == monomerProbe = "false" /\ nodeHash # 0 /\ ~monomerUp /\ pc = "returned"

\* The statements whose error Run returns.
FatalStages ==
    {"logAnvil", "startAnvil", "dialAnvil", "generateKey", "setBalance",
     "logForge", "startForge", "waitForge", "latestL1Block",
     "listenEngineHTTP", "listenEngineWS", "listenComet", "newTestApp", "nodeRun",
     "dialMonomer", "genesisHash", "newL1Deployments", "newDeployConfig",
     "rollupConfig", "opStackRun"}

\* C3: a stage that fails makes Run return a non-nil error at once: the
\* failed stage is the last statement executed, an exited-with-error forge
\* that was waited for is such a failure, and no statement runs twice.
C3_FailureReturnsErrNoRetry ==
    /\ failedStage # "none" =>
          /\ failedStage \in FatalStages
          /\ pc = "returned" /\ result = "err"
          /\ Last(order) = failedStage
    /\ result = "err" => failedStage # "none"
    /\ (Executed("waitForge") /\ forge \in {"exitErr", "killed"}) =>
          (result = "err" /\ failedStage = "waitForge")
    /\ NoDuplicates(order)

\* C3 witness: the deployment script exited nonzero and Run returned its error.
C3_Witness ==
    /\ failedStage = "waitForge" /\ forge = "exitErr"
    /\ pc = "returned" /\ result = "err"

\* C4: the statements run in source order, each after its predecessor
\* returned without error, and every value a stage consumes (key, L1 block,
\* deployments, genesis hash, rollup config) was produced before it was read.
C4_StagesInOrder ==
    /\ IsPrefix(order, StageOrder)
    /\ (pc # "returned" /\ Len(order) < Len(StageOrder)) => pc = StageOrder[Len(order) + 1]
    /\ fundedKey # 0 => fundedKey = privKey
    /\ Executed("startForge") => (forgeKey # 0 /\ forgeKey = privKey /\ fundedKey = privKey)
    /\ Executed("latestL1Block") /\ latestL1Block # 0 => forge = "exitOk"
    /\ nodeGenesis # NoGenesis =>
          (latestL1Block # 0 /\ nodeGenesis.time = BlockTime(latestL1Block))
    /\ l2GenesisBlockHash # 0 => nodeHash # 0
    /\ rollupConfig # NoRollupConfig =>
          /\ rollupConfig.l1Block = latestL1Block /\ latestL1Block # 0
          /\ rollupConfig.l2GenesisHash # 0
          /\ rollupConfig.deployments # 0
    /\ opStack # NoOPStack =>
          /\ opStack.key = privKey /\ privKey # 0
          /\ opStack.oracle # 0
          /\ opStack.rollupConfig # NoRollupConfig

\* C4 witness: a complete bring-up.
C4_Witness == opStackStarted /\ pc = "returned" /\ result = "nil"

\* What the monitor has reported, in any state.
C5_MonitorReports ==
    /\ Len(onAnvilErr) <= 1
    /\ \A i \in 1..Len(onAnvilErr) : onAnvilErr[i] = "err"
    /\ pcMon # "done" => onAnvilErr = <<>>
    /\ pcMon = "done" => (Len(onAnvilErr) = 1 <=> anvil \in {"exitErr", "killed"})

\* The step in which the monitor observes the exit.
MonitorStep == pcMon = "waiting" /\ pcMon' = "done"

\* C5: OnAnvilErr is invoked only by the monitor, exactly once with a non-nil
\* error when Wait failed and never on a clean exit, and the monitor's step
\* changes neither the context nor Run's position or return value.
C5_MonitorOnlyReports ==
    /\ []C5_MonitorReports
    /\ [][(onAnvilErr' # onAnvilErr => MonitorStep)
          /\ (MonitorStep => UNCHANGED <<pc, result, failedStage, order, cancelled>>)]_vars

\* C5 witness: anvil died with an error after a complete bring-up; the
\* monitor reported it and Run's nil result stands.
C5_Witness ==
    /\ pcMon = "done" /\ anvil = "exitErr" /\ Len(onAnvilErr) = 1
    /\ pc = "returned" /\ result = "nil" /\ opStackStarted /\ ~cancelled

\* C6: once the manager is closed, every listener was bound at most once and
\* closed exactly as often as it was bound.
C6_ListenersClosedOnce ==
    envClosed => \A l \in Listeners : bindCount[l] <= 1 /\ closeCount[l] = bindCount[l]

\* Position of a cleanup in the invocation log (0: not invoked).
LogPos(label) ==
    IF label \in Range(cleanupLog)
      THEN CHOOSE i \in 1..Len(cleanupLog) : cleanupLog[i] = label
      ELSE 0

\* C7: closing the manager invokes every cleanup registered with DeferErr
\* exactly once, last registered first (mempool db, tx db, block db, log
\* file), whatever Run returned and whichever cleanups fail.
C7_CleanupsOnceInReverse ==
    /\ ~envClosed => cleanupLog = <<>>
    /\ envClosed =>
          /\ cleanupLog = Reverse(deferred)
          /\ NoDuplicates(cleanupLog)
          /\ Last(cleanupLog) = "close log file"
          /\ Executed("deferBlockDB") => LogPos("close block db") > 0
          /\ Executed("deferTxDB") =>
                (0 < LogPos("close tx db") /\ LogPos("close tx db") < LogPos("close block db"))
          /\ Executed("deferMempoolDB") =>
                (0 < LogPos("close mempool db")
                 /\ LogPos("close mempool db") < LogPos("close tx db"))
          /\ LogPos("close block db") < LogPos("close log file")
          /\ cleanupFailed \subseteq Range(cleanupLog)

\* C7 witness: Run failed after the three stores were registered, a cleanup
\* that is not the last one failed, and all four cleanups were invoked.
C7_Witness ==
    /\ envClosed /\ result = "err" /\ failedStage = "nodeRun"
    /\ cleanupFailed = {"close mempool db"}
    /\ {"close block db", "close tx db", "close mempool db", "close log file"}
          \subseteq Range(cleanupLog)

\* C8 as stated: when Run returns after a cancellation that hit the running
\* forge process, the process has ended, the result is an error and every
\* registered cleanup has already run.
C8_CleanupsBeforeReturn ==
    (pc = "returned" /\ cancelMidDeploy) =>
        /\ forge # "running"
        /\ result = "err"
        /\ Range(deferred) \subseteq Range(cleanupLog)

\* C8 amended: when Run returns after a cancellation that hit the running
\* forge process, the process has ended and the result is an error; no
\* cleanup has run by then, and all of them have run once the caller has
\* closed the manager.
C8_CleanupsAtCallerClose ==
    /\ (pc = "returned" /\ cancelMidDeploy) =>
          /\ forge \in {"exitOk", "exitErr", "killed"}
          /\ result = "err"
          /\ ~envClosed => cleanupLog = <<>>
          /\ envClosed => Range(deferred) \subseteq Range(cleanupLog)
    /\ pc # "returned" => (cleanupLog = <<>> /\ ~envClosed)

\* C8 witness: forge was killed by the cancellation, Run returned its error,
\* the caller closed the manager.
C8_Witness ==
    /\ pc = "returned" /\ cancelMidDeploy /\ forge = "killed" /\ result = "err"
    /\ envClosed /\ "close log file" \in Range(cleanupLog)

\* C9: a derived rollup config carries the hash the genesis query returned,
\* which is the running node's genesis hash, and the query came after the
\* engine endpoint was seen reachable.
C9_GenesisHashBound ==
    rollupConfig # NoRollupConfig =>
        /\ rollupConfig.l2GenesisHash = l2GenesisBlockHash
        /\ l2GenesisBlockHash = nodeHash /\ nodeHash # 0
        /\ monomerProbe = "true"
        /\ 0 < Pos("probeMonomer") /\ Pos("probeMonomer") < Pos("genesisHash")
        /\ Pos("genesisHash") < Pos("rollupConfig")

\* C9 witness: a rollup config derived from a node whose hash is not the first one.
C9_Witness == rollupConfig # NoRollupConfig /\ nodeHash = MaxHash

\* C10: when the rollup config is derived the deploy config has L1 chain ID
\* 31337 whatever the template held, the L2 chain ID the node was started
\* with (901) and the loaded deployments; the three overrides ran in source
\* order before the derivation.
C10_OverridesBeforeDerivation ==
    Executed("rollupConfig") =>
        /\ deployConfig.l1ChainID = AnvilChainID
        /\ deployConfig.l2ChainID = nodeGenesis.chainID
        /\ deployConfig.l2ChainID = l2ChainID
        /\ deployConfig.deployments = l1Deployments /\ l1Deployments # 0
        /\ 0 < Pos("setL1ChainID") /\ Pos("setL1ChainID") < Pos("setL2ChainID")
        /\ Pos("setL2ChainID") < Pos("setDeployments")
        /\ Pos("setDeployments") < Pos("rollupConfig")
        /\ rollupConfig # NoRollupConfig =>
              /\ rollupConfig.l1ChainID = AnvilChainID
              /\ rollupConfig.l2ChainID = l2ChainID
              /\ rollupConfig.deployments = l1Deployments

\* C10 witness: a rollup config derived from a template whose chain IDs were
\* both different from the forced ones.
C10_Witness ==
    /\ rollupConfig # NoRollupConfig
    /\ templateConfig.l1ChainID = HardhatL1ChainID
    /\ templateConfig.l2ChainID # l2ChainID

\* Number of times a statement occurs in the history.
Times(stage) == Cardinality({i \in 1..Len(order) : order[i] = stage})

\* C11: when the OP stack is started it is given the oracle address of the
\* L1 deployments that this run's forge script wrote, the one key generated
\* in this run (the key that was funded and given to forge) and the rollup
\* config derived in this run, all of them from stages that succeeded.
C11_OPStackArguments ==
    Executed("opStackRun") =>
        /\ opStack.oracle = l1Deployments /\ l1Deployments = diskDeployments
        /\ opStack.oracle # 0 /\ forge = "exitOk"
        /\ opStack.key = privKey /\ privKey # 0
        /\ fundedKey = privKey /\ forgeKey = privKey
        /\ Times("generateKey") = 1
        /\ opStack.rollupConfig = rollupConfig /\ rollupConfig # NoRollupConfig
        /\ failedStage \in {"none", "opStackRun"}

\* C11 witness: the OP stack was started with the second key and address.
C11_Witness == opStackStarted /\ opStack.key = MaxKey /\ opStack.oracle = MaxAddr

L1GenesisTime == BlockTime(1)

\* C13: the L1 block is read after forge exited with success and before the
\* node is run; the node's genesis time is that block's timestamp, the
\* rollup config is derived from that same block even when the chain has
\* advanced since, and the L2 genesis time is not before the L1 genesis time.
C13_L1SnapshotSeedsGenesis ==
    /\ latestL1Block # 0 =>
          /\ forge = "exitOk"
          /\ 0 < Pos("waitForge") /\ Pos("waitForge") < Pos("latestL1Block")
          /\ latestL1Block <= l1Head
    /\ nodeGenesis # NoGenesis =>
          /\ latestL1Block # 0
          /\ Pos("latestL1Block") < Pos("nodeRun")
          /\ nodeGenesis.time = BlockTime(latestL1Block)
          /\ nodeGenesis.time >= L1GenesisTime
    /\ rollupConfig # NoRollupConfig =>
          /\ rollupConfig.l1Block = latestL1Block
          /\ rollupConfig.l2Time = nodeGenesis.time

\* C13 witness: the rollup config was derived after the L1 chain had moved
\* past the block that was read.
C13_Witness == rollupConfig # NoRollupConfig /\ l1Head > latestL1Block

\* A readiness probe returns true only on a reachable endpoint and false
\* only under a cancelled context.
ProbeAnswersJustified ==
    /\ anvilProbe' # anvilProbe =>
          /\ anvilProbe' = "true" => anvilUp
          /\ anvilProbe' = "false" => cancelled
    /\ monomerProbe' # monomerProbe =>
          /\ monomerProbe' = "true" => monomerUp
          /\ monomerProbe' = "false" => cancelled

\* C14: a probe answers true only when the endpoint accepts a connection
\* and false only when ctx is cancelled; while neither holds the wait cannot
\* end (no timeout of its own), and a wait does not last forever while the
\* endpoint stays reachable or ctx is cancelled.
C14_ProbeEndsOnReachableOrCancel ==
    /\ [][ProbeAnswersJustified]_vars
    /\ []((pc = "probeAnvil" /\ ~anvilUp /\ ~cancelled) => ~ENABLED ProbeAnvil)
    /\ []((pc = "probeMonomer" /\ ~monomerUp /\ ~cancelled) => ~ENABLED ProbeMonomer)
    /\ []<>~(pc = "probeAnvil" /\ (anvilUp \/ cancelled))
    /\ []<>~(pc = "probeMonomer" /\ (monomerUp \/ cancelled))

\* C14 witness: one wait ended on a reachable endpoint, the other on the
\* cancellation.
C14_Witness ==
    /\ anvilProbe = "true" /\ monomerProbe = "false"
    /\ cancelled /\ ~monomerUp /\ pc = "returned"

\* C15: a process is started only after its output capture was set up, and
\* a failed capture set-up makes Run return an error with the process not
\* started and, for anvil, no monitor launched.
C15_CaptureBeforeStart ==
    /\ anvil # "none" =>
          (0 < Pos("logAnvil") /\ Pos("logAnvil") < Pos("startAnvil"))
    /\ pcMon # "none" => anvil # "none"
    /\ failedStage = "logAnvil" =>
          /\ pc = "returned" /\ result = "err"
          /\ anvil = "none" /\ pcMon = "none" /\ ~Executed("startAnvil")
    /\ forge # "none" =>
          (0 < Pos("logForge") /\ Pos("logForge") < Pos("startForge"))
    /\ failedStage = "logForge" =>
          /\ pc = "returned" /\ result = "err"
          /\ forge = "none" /\ ~Executed("startForge")

\* C15 witness: the capture for forge failed while anvil was running.
C15_Witness ==
    /\ failedStage = "logForge" /\ pc = "returned"
    /\ anvil = "running" /\ forge = "none"

\* C16: once the manager is closed no in-memory store created by runMonomer
\* (the test app's store, block db, tx db, mempool db) is still open.
C16_AllStoresReleased ==
    envClosed => \A st \in Stores : stores[st] # "open"

\* C18: Run returns nil exactly when the anvil probe answered false, the
\* engine probe answered false (every earlier stage having succeeded), or
\* every stage up to and including the OP stack's Run succeeded; every other
\* return carries an error.  A nil result does not imply a started OP stack.
C18_NilInThreeCases ==
    pc = "returned" =>
        /\ result \in {"nil", "err"}
        /\ result = "nil" <=>
              (anvilProbe = "false" \/ monomerProbe = "false" \/ opStackStarted)
        /\ result = "err" <=> failedStage # "none"
        /\ monomerProbe = "false" =>
              (anvilProbe = "true" /\ Executed("nodeRun") /\ nodeHash # 0)
        /\ opStackStarted => order = StageOrder

\* C18 witness: a nil return without the OP stack, after the L2 short-circuit.
C18_Witness ==
    /\ pc = "returned" /\ result = "nil"
    /\ ~opStackStarted /\ monomerProbe = "false" /\ anvilProbe = "true"

Exited == {"exitOk", "exitErr", "killed"}

\* While Run waits for anvil with the process gone and ctx not cancelled,
\* Run can take no step.
WaitStuckAfterExit ==
    (pc = "probeAnvil" /\ anvil \in Exited /\ ~cancelled) =>
        (~anvilUp /\ ~ENABLED RunStep)

\* C19: the exit of the anvil process, clean or not, and the monitor's
\* report of it leave Run where it is; the wait on the anvil endpoint ends
\* only on a reachable endpoint or a cancelled ctx, so with anvil dead and
\* ctx not cancelled Run stays in the wait and does not return.
C19_ExitDoesNotEndWait ==
    /\ []WaitStuckAfterExit
    /\ [][/\ ((anvil = "running" /\ anvil' \in Exited) \/ MonitorStep) =>
                UNCHANGED <<pc, result, anvilProbe>>
          /\ (pc = "probeAnvil" /\ pc' # pc) => (anvilUp \/ cancelled)
          /\ (pc = "probeAnvil" /\ anvil \in Exited /\ ~cancelled') =>
                (pc' = "probeAnvil" /\ result' = "none")]_vars

\* C19 witness: anvil died at startup, the monitor reported it, ctx is not
\* cancelled and Run is still waiting.
C19_Witness ==
    /\ pc = "probeAnvil" /\ anvil = "exitErr" /\ l1Head = 0
    /\ pcMon = "done" /\ Len(onAnvilErr) = 1 /\ ~cancelled

\* A step of Run: its position moves.
RunMoves == pc' # pc

\* A step of Run leaves every running process and the waiting monitor as
\* they are.
RunKillsNothing ==
    RunMoves =>
        /\ (anvil = "running" => anvil' = "running" /\ anvilUp' = anvilUp)
        /\ (forge = "running" => forge' = "running")
        /\ (pcMon = "waiting" => pcMon' = "waiting")

\* The anvil process ends by its own exit or by the kill that follows a
\* cancelled ctx, and the monitor ends only after the process has.
EndsByExitOrCancel ==
    /\ (anvil = "running" /\ anvil' # "running") =>
          (anvil' \in {"exitOk", "exitErr"} \/ (anvil' = "killed" /\ cancelled))
    /\ MonitorStep => anvil \in Exited

\* C20: Run terminates no subprocess: its steps, the returns with an error
\* and the nil return of the monomer short-circuit included, leave the anvil
\* process and the monitor live; these end only by the process's own exit or
\* after ctx is cancelled; and once ctx is cancelled a launched monitor
\* completes.
C20_RunTerminatesNoProcess ==
    /\ [][RunKillsNothing /\ EndsByExitOrCancel]_vars
    /\ ((cancelled /\ pcMon = "waiting") ~> (pcMon = "done"))

\* C20 witness: Run has returned an error from a stage after the anvil
\* start while ctx is not cancelled; anvil runs and the monitor waits.
C20_Witness ==
    /\ pc = "returned" /\ result = "err"
    /\ Pos("goMonitor") < Pos(failedStage)
    /\ ~cancelled /\ anvil = "running" /\ pcMon = "waiting"

\* C20 witness of the nil return: the monomer short-circuit has returned nil
\* and the monitor, then still waiting, has since completed.
C20_WitnessNil ==
    /\ pc = "returned" /\ result = "nil" /\ monomerProbe = "false"
    /\ cancelled /\ pcMon = "done"

====
